---------------------------- MODULE Spec2Model ----------------------------
(***************************************************************************)
(* A model of the PDFLux single-page client.                               *)
(*                                                                         *)
(*   src/unnamed/part_000, lines 1-469     the root component App, the     *)
(*        Sidebar, the Dashboard and the three placeholder views           *)
(*   src/unnamed/part_000, lines 470-1110  the AIChat component            *)
(*   src/frontend/src/components/DocumentManager.js                        *)
(*        the DocumentManager component                                    *)
(*                                                                         *)
(* React state (useState) is a variable per hook.  A handler runs to its   *)
(* first await in one step of the browser's event loop; the settling of    *)
(* the awaited HTTP request is another step, taken by the continuation.    *)
(* Text is a sequence of one-character strings, so that trimming, lower    *)
(* casing, substring search and collation are computed, not assumed.       *)
(* Timestamps of chat messages are data the code only passes through and   *)
(* are left out of the message records.                                    *)
(*                                                                         *)
(* The sidebar navigates with plain <a href> links, so every navigation is *)
(* a page load that mounts App and the one view of the route.  Each view   *)
(* therefore has a specification of its own: SpecApp, SpecDashboard,       *)
(* SpecDocs, SpecChat.                                                     *)
(***************************************************************************)
EXTENDS Integers, Sequences, FiniteSets, TLC

VARIABLES
    \* ---- App (part_000:36-94) and the browser around it
    darkMode,        \* useState(false), part_000:37
    sidebarOpen,     \* useState(true), part_000:38
    appMounted,      \* whether App's mount effect (part_000:40-46) has run
    storedTheme,     \* localStorage['pdflux-theme']
    rootDark,        \* 'dark' in document.documentElement.classList
    prefersDark,     \* matchMedia('(prefers-color-scheme: dark)').matches
    route,           \* location.pathname of the page
    view,            \* the component the router mounted for the route
    lastChosen,      \* history: the theme last chosen with toggleDarkMode
    \* ---- Dashboard (part_000:186-393)
    stats,           \* useState({totalDocuments, totalChats, aiTasks, storageUsed})
    recentDocuments, \* useState([]), part_000:193
    dashLoading,     \* Dashboard's loading, useState(true), part_000:194
    dashFetch,       \* fetchDashboardData: "idle", "pending" or "settled"
    \* ---- DocumentManager (components/DocumentManager.js:31-526)
    documents,       \* useState([]), :32
    loading,         \* useState(true), :33
    searchTerm,      \* useState(''), :35
    viewMode,        \* useState('grid'), :37
    sortBy,          \* useState('upload_date'), :38
    aiProviders,     \* useState([]), :39
    docsMounted,     \* whether the mount effect (:106-109) has run
    docsFetches,     \* GET /api/documents requests in flight
    docsOvertaken,   \* how many of them, the oldest, were sent before the request
                     \* whose response was written to the list last
    providersFetch,  \* fetchAiProviders: "idle", "pending" or "settled"
    uploading,       \* useState(false), :34
    uploads,         \* the onDrop calls waiting at their await: the files' names
    deletes,         \* the deleteDocument calls waiting at their await: the docIds
    downloads,       \* the downloadDocument calls waiting at their await
    selectedDocument,    \* useState(null), :36
    aiTaskDialogOpen,    \* useState(false), :42
    aiTaskType,          \* useState('summarize'), :43
    aiTaskInstructions,  \* useState(''), :44
    aiTaskProvider,      \* useState('openai'), :45
    aiTaskModel,         \* useState('gpt-4o-mini'), :46
    aiTaskLoading,       \* useState(false), :47
    aiTasks,             \* the performAiTask calls waiting at their await
    gestures,        \* which of the view's controls the user works with
    \* ---- AIChat (part_000:499-1043)
    messages,             \* useState([]), part_000:501
    inputMessage,         \* useState(''), part_000:502
    isLoading,            \* useState(false), part_000:503
    chatSelectedDocument, \* selectedDocument, useState(null), part_000:504
    chatDocuments,        \* documents, useState([]), part_000:507
    chatAiProviders,      \* aiProviders, useState([]), part_000:508
    currentProvider,      \* useState('openai'), part_000:509
    currentModel,         \* useState('gpt-4o-mini'), part_000:510
    temperature,          \* useState(0.7), part_000:511, in tenths
    chatMounted,          \* whether the mount effect (part_000:526-530) has run
    chatPending,          \* the sendMessage calls waiting at their await, oldest first
    chatDocsFetches,      \* AIChat's GET /api/documents requests in flight
    chatProvidersFetch,   \* AIChat's fetchAiProviders: "idle", "pending" or "settled"
    \* ---- what the last step did (rewritten by every step)
    sent,            \* the HTTP requests the step issued, in order
    received,        \* the HTTP response the step's continuation was resumed with
    toasts,          \* the toast notifications the step showed, in order
    effects          \* what the step asked of the browser: confirm dialogs and
                     \* their answers, tabs opened, downloads started

appVars == <<darkMode, sidebarOpen, appMounted, storedTheme, rootDark,
             prefersDark, route, view, lastChosen>>
outVars == <<sent, received, toasts, effects>>

dashVars == <<stats, recentDocuments, dashLoading, dashFetch>>

docListVars == <<documents, loading, searchTerm, viewMode, sortBy, aiProviders,
                 docsMounted, docsFetches, docsOvertaken, providersFetch>>

docFileVars == <<uploading, uploads, deletes, downloads>>

docTaskVars == <<selectedDocument, aiTaskDialogOpen, aiTaskType, aiTaskInstructions,
                 aiTaskProvider, aiTaskModel, aiTaskLoading, aiTasks>>

docVars == <<docListVars, docFileVars, docTaskVars, gestures>>

chatVars == <<messages, inputMessage, isLoading, chatSelectedDocument, chatDocuments,
              chatAiProviders, currentProvider, currentModel, temperature,
              chatMounted, chatPending, chatDocsFetches, chatProvidersFetch>>

vars == <<appVars, dashVars, docVars, chatVars, outVars>>

-----------------------------------------------------------------------------
(* Requests and toasts *)

GetDocuments == [method |-> "GET", url |-> "/api/documents"]
GetProviders == [method |-> "GET", url |-> "/api/ai/providers"]

\* A settled request, as the awaiting continuation sees it
Fulfilled(url, data) == [url |-> url, ok |-> TRUE, data |-> data]
Rejected(url, error) == [url |-> url, ok |-> FALSE, error |-> error]

\* An error without a response body (the network failed)
NetworkError == [message |-> <<"m">>]

\* An error with the backend's detail in its response body
DetailedError == [message |-> <<"m">>, detail |-> <<"d">>]

\* error.response?.data?.detail || error.message
ErrorDetail(error) ==
    IF "detail" \in DOMAIN error /\ error.detail # <<>> THEN error.detail ELSE error.message

\* JavaScript's null
Null == [null |-> TRUE]

ToastError(msg)   == [kind |-> "error", message |-> msg]
ToastSuccess(msg) == [kind |-> "success", message |-> msg]
\* A toast whose message is a template literal with one interpolated text
ToastErrorOf(template, text)   == [kind |-> "error", template |-> template, text |-> text]
ToastSuccessOf(template, text) == [kind |-> "success", template |-> template, text |-> text]

-----------------------------------------------------------------------------
(* App: theme and router *)

\* localStorage.getItem returns null when the key was never set
NoTheme == "null"

\* The paths a page can be loaded at: the four routes, and one no route matches
Paths == {"/", "/documents", "/ai-chat", "/settings", "/missing"}

\* The sidebar's navigation entries
SidebarNavigation ==
    << [name |-> "Dashboard", href |-> "/"],
       [name |-> "Documents", href |-> "/documents"],
       [name |-> "AI Chat",   href |-> "/ai-chat"],
       [name |-> "Settings",  href |-> "/settings"] >>

\* The components a name can denote.  `file` tells the definitions apart:
\* App.js defines placeholders under the names DocumentManager and AIChat,
\* and imports neither components/DocumentManager.js nor the AIChat file.
DashboardView       == [name |-> "Dashboard", file |-> "App.js", placeholder |-> FALSE]
DocumentManagerStub == [name |-> "DocumentManager", file |-> "App.js", placeholder |-> TRUE]
AIChatStub          == [name |-> "AIChat", file |-> "App.js", placeholder |-> TRUE]
SettingsStub        == [name |-> "Settings", file |-> "App.js", placeholder |-> TRUE]
DocumentManagerFull == [name |-> "DocumentManager",
                        file |-> "components/DocumentManager.js", placeholder |-> FALSE]
AIChatFull          == [name |-> "AIChat", file |-> "components/AIChat.js", placeholder |-> FALSE]
\* No route matches: <Routes> renders nothing
NoView              == [name |-> "none", file |-> "none", placeholder |-> FALSE]

\* <Routes>: the element each path mounts, its name resolved in App.js
RouteElement(path) ==
    CASE path = "/"          -> DashboardView
      [] path = "/documents" -> DocumentManagerStub
      [] path = "/ai-chat"   -> AIChatStub
      [] path = "/settings"  -> SettingsStub
      [] OTHER               -> NoView

\* The requests a component's mount effect issues
MountRequests(component) ==
    CASE component = DashboardView       -> <<GetDocuments>>
      [] component = DocumentManagerFull -> <<GetDocuments, GetProviders>>
      [] component = AIChatFull          -> <<GetDocuments, GetProviders>>
      [] OTHER                           -> <<>>

\* A mount effect that lets the system preference win over a stored 'light'
RestoredDark_IgnoresStored(savedTheme, prefers) == savedTheme = "dark" \/ prefers

\* The condition of App's mount effect
RestoredDark(savedTheme, prefers) ==
    savedTheme = "dark" \/ (savedTheme = NoTheme /\ prefers)

\* A toggle that stores the theme it leaves instead of the one it enters
ThemeToStore_Inverted(dm) == IF dm THEN "dark" ELSE "light"

\* What toggleDarkMode writes to local storage, from the darkMode it read
ThemeToStore(dm) == IF ~dm THEN "dark" ELSE "light"

\* What toggleDarkMode does to the root's 'dark' class
RootClassAfterToggle(dm) == ~dm

\* A page load at `path`: a fresh document, App constructed and rendered.
LoadPage(path) ==
    /\ darkMode' = FALSE
    /\ sidebarOpen' = TRUE
    /\ rootDark' = FALSE
    /\ appMounted' = FALSE
    /\ route' = path
    /\ view' = RouteElement(path)
    /\ received' = <<>>
    /\ sent' = <<>>
    /\ toasts' = <<>>
    /\ UNCHANGED <<storedTheme, prefersDark, lastChosen>>
    /\ UNCHANGED <<dashVars, docVars, chatVars>>
    /\ effects' = <<>>

\* The mount effects: the view's (children first), then App's.
AppMount ==
    /\ ~appMounted
    /\ appMounted' = TRUE
    /\ IF RestoredDark(storedTheme, prefersDark)
         THEN darkMode' = TRUE /\ rootDark' = TRUE
         ELSE UNCHANGED <<darkMode, rootDark>>
    /\ received' = <<>>
    /\ sent' = MountRequests(view)
    /\ toasts' = <<>>
    /\ UNCHANGED <<sidebarOpen, storedTheme, prefersDark, route, view, lastChosen>>
    /\ UNCHANGED <<dashVars, docVars, chatVars>>
    /\ effects' = <<>>

toggleDarkMode ==
    /\ appMounted
    /\ darkMode' = ~darkMode
    /\ rootDark' = RootClassAfterToggle(darkMode)
    /\ storedTheme' = ThemeToStore(darkMode)
    /\ lastChosen' = (IF ~darkMode THEN "dark" ELSE "light")
    /\ received' = <<>>
    /\ sent' = <<>>
    /\ toasts' = <<>>
    /\ UNCHANGED <<sidebarOpen, appMounted, prefersDark, route, view>>
    /\ UNCHANGED <<dashVars, docVars, chatVars>>
    /\ effects' = <<>>

\* Sidebar onToggle
toggleSidebar ==
    /\ appMounted
    /\ sidebarOpen' = ~sidebarOpen
    /\ received' = <<>>
    /\ sent' = <<>>
    /\ toasts' = <<>>
    /\ UNCHANGED <<darkMode, appMounted, storedTheme, rootDark, prefersDark,
                   route, view, lastChosen>>
    /\ UNCHANGED <<dashVars, docVars, chatVars>>
    /\ effects' = <<>>

\* The user changes the system colour scheme
SystemPreferenceChange ==
    /\ prefersDark' = ~prefersDark
    /\ received' = <<>>
    /\ sent' = <<>>
    /\ toasts' = <<>>
    /\ UNCHANGED <<darkMode, sidebarOpen, appMounted, storedTheme, rootDark,
                   route, view, lastChosen>>
    /\ UNCHANGED <<dashVars, docVars, chatVars>>
    /\ effects' = <<>>

AppNext ==
    \/ \E path \in Paths : LoadPage(path)
    \/ AppMount
    \/ toggleDarkMode
    \/ toggleSidebar
    \/ SystemPreferenceChange

-----------------------------------------------------------------------------
(* Dashboard *)

\* Bounds of the document lists GET /api/documents answers the dashboard with
MaxDashDocs == 6
DocSizes == {1, 2}

\* Math.floor(Math.random() * 50) and Math.floor(Math.random() * 100)
MockChatsRange == 50
MockTasksRange == 100
\* documents.slice(0, 5)
RecentLimit == 5

\* The responses: the i-th document has id i and any of the sizes
DashResponses ==
    UNION { { [i \in 1..n |-> [id |-> i, size |-> f[i]]] : f \in [1..n -> DocSizes] }
            : n \in 0..MaxDashDocs }

Min(a, b) == IF a <= b THEN a ELSE b

\* Array.prototype.slice(start, end) for 0 <= start <= end (0-based, end excluded)
Slice(arr, start, end) == SubSeq(arr, start + 1, Min(end, Len(arr)))

\* documents.reduce((total, doc) => total + doc.size, 0)
RECURSIVE ReduceSizes(_, _, _)
ReduceSizes(docs, i, total) ==
    IF i > Len(docs) THEN total
    ELSE ReduceSizes(docs, i + 1, total + docs[i].size)

StorageUsedOf(docs) == ReduceSizes(docs, 1, 0)

\* documents.slice(-5): the last five instead of the first five
RecentOf_LastFive(docs) == SubSeq(docs, Len(docs) - Min(RecentLimit, Len(docs)) + 1, Len(docs))

RecentOf(docs) == Slice(docs, 0, RecentLimit)

InitialStats == [totalDocuments |-> 0, totalChats |-> 0, aiTasks |-> 0, storageUsed |-> 0]

\* useEffect(() => { fetchDashboardData(); }, []) up to the await
DashboardMount ==
    /\ dashFetch = "idle"
    /\ dashFetch' = "pending"
    /\ received' = <<>>
    /\ sent' = <<GetDocuments>>
    /\ toasts' = <<>>
    /\ UNCHANGED <<stats, recentDocuments, dashLoading>>
    /\ UNCHANGED <<appVars, docVars, chatVars>>
    /\ effects' = <<>>

\* fetchDashboardData after the await, the request fulfilled with `docs`
DashFetchSuccess ==
    /\ dashFetch = "pending"
    /\ \E docs \in DashResponses, chats \in 0..(MockChatsRange - 1),
          tasks \in 0..(MockTasksRange - 1) :
         /\ stats' = [totalDocuments |-> Len(docs),
                      totalChats     |-> chats,
                      aiTasks        |-> tasks,
                      storageUsed    |-> StorageUsedOf(docs)]
         /\ recentDocuments' = RecentOf(docs)
         /\ received' = <<Fulfilled("/api/documents", docs)>>
    /\ dashLoading' = FALSE
    /\ dashFetch' = "settled"
    /\ sent' = <<>>
    /\ toasts' = <<>>
    /\ UNCHANGED <<appVars, docVars, chatVars>>
    /\ effects' = <<>>

\* A fetchDashboardData whose setLoading(false) is inside the try block
DashFetchFailure_KeepsLoading ==
    /\ dashFetch = "pending"
    /\ dashFetch' = "settled"
    /\ received' = <<Rejected("/api/documents", NetworkError)>>
    /\ sent' = <<>>
    /\ toasts' = <<ToastError("Failed to load dashboard data")>>
    /\ UNCHANGED <<stats, recentDocuments, dashLoading>>
    /\ UNCHANGED <<appVars, docVars, chatVars>>
    /\ effects' = <<>>

\* fetchDashboardData after the await, the request rejected
DashFetchFailure ==
    /\ dashFetch = "pending"
    /\ dashLoading' = FALSE
    /\ dashFetch' = "settled"
    /\ received' = <<Rejected("/api/documents", NetworkError)>>
    /\ sent' = <<>>
    /\ toasts' = <<ToastError("Failed to load dashboard data")>>
    /\ UNCHANGED <<stats, recentDocuments>>
    /\ UNCHANGED <<appVars, docVars, chatVars>>
    /\ effects' = <<>>

\* A page load of "/": the Dashboard constructed anew
DashboardLoad ==
    /\ dashFetch = "settled"
    /\ stats' = InitialStats
    /\ recentDocuments' = <<>>
    /\ dashLoading' = TRUE
    /\ dashFetch' = "idle"
    /\ received' = <<>>
    /\ sent' = <<>>
    /\ toasts' = <<>>
    /\ UNCHANGED <<appVars, docVars, chatVars>>
    /\ effects' = <<>>

DashboardNext ==
    \/ DashboardMount
    \/ DashFetchSuccess
    \/ DashFetchFailure
    \/ DashboardLoad

-----------------------------------------------------------------------------
(* Text *)

\* String.prototype.toLowerCase on the letters of the model
LowerChar(c) == CASE c = "A" -> "a" [] c = "B" -> "b" [] OTHER -> c

ToLowerCase(s) == [i \in 1..Len(s) |-> LowerChar(s[i])]

\* String.prototype.includes
Includes(s, t) == \E i \in 0..(Len(s) - Len(t)) : SubSeq(s, i + 1, i + Len(t)) = t

\* The texts over `chars` of at most n characters
TextsUpTo(chars, n) == UNION { [1..k -> chars] : k \in 0..n }

\* ---- String.prototype.localeCompare on the letters of the model, as the
\* default collation orders them: first by the letters regardless of case
\* (a prefix before its extensions), then, the letters being the same, by the
\* first difference of case, lower case first.
LetterRank(c) == CASE LowerChar(c) = "a" -> 1 [] LowerChar(c) = "b" -> 2 [] OTHER -> 3

CaseRank(c) == IF LowerChar(c) = c THEN 0 ELSE 1

RECURSIVE CompareRanks(_, _, _)
CompareRanks(x, y, i) ==
    IF i > Len(x) /\ i > Len(y) THEN 0
    ELSE IF i > Len(x) THEN -1
    ELSE IF i > Len(y) THEN 1
    ELSE IF x[i] < y[i] THEN -1
    ELSE IF x[i] > y[i] THEN 1
    ELSE CompareRanks(x, y, i + 1)

LocaleCompare(x, y) ==
    LET primary == CompareRanks([i \in 1..Len(x) |-> LetterRank(x[i])],
                                [i \in 1..Len(y) |-> LetterRank(y[i])], 1)
    IN  IF primary # 0 THEN primary
        ELSE CompareRanks([i \in 1..Len(x) |-> CaseRank(x[i])],
                          [i \in 1..Len(y) |-> CaseRank(y[i])], 1)

\* ---- new Date(upload_date) as a number: the date texts of the model are
\* two decimal digits
DigitValue(c) == CASE c = "0" -> 0 [] c = "1" -> 1 [] c = "2" -> 2

ParseDate(d) == DigitValue(d[1]) * 10 + DigitValue(d[2])

-----------------------------------------------------------------------------
(* DocumentManager *)

\* Bounds: the length of the backend's document list, of the search term,
\* and the number of GET /api/documents in flight at once
MaxDocs == 3
MaxTerm == 2
MaxFetches == 2

\* The documents the backend may hold.  Two filenames differ by case only
\* (2 and 3), two sizes and two dates repeat, and a description is absent,
\* empty or present.
DocCatalog ==
    { [id |-> 1, filename |-> <<"b", "a">>, size |-> 2, upload_date |-> <<"1", "0">>],
      [id |-> 2, filename |-> <<"A">>, description |-> <<>>,
       size |-> 1, upload_date |-> <<"0", "1">>],
      [id |-> 3, filename |-> <<"a">>, description |-> <<"A", "b">>,
       size |-> 2, upload_date |-> <<"0", "1">>] }

\* The lists of distinct documents of `catalog`, of at most n documents
DocListsOf(catalog, n) ==
    UNION { { l \in [1..k -> catalog] : \A i, j \in 1..k : l[i] = l[j] => i = j }
            : k \in 0..n }

DocLists == DocListsOf(DocCatalog, MaxDocs)

SearchTerms == TextsUpTo({"a", "B"}, MaxTerm)

\* The values the sortBy Select offers
SortKeys == {"upload_date", "filename", "size"}

\* The answer of GET /api/ai/providers
ProviderList ==
    << [name |-> "openai", available_models |-> <<"gpt-4o-mini">>],
       [name |-> "anthropic", available_models |-> <<"claude-3-5-sonnet">>] >>

\* A filter that forgets toLowerCase
MatchesSearch_CaseSensitive(doc, term) ==
    \/ Includes(doc.filename, term)
    \/ /\ "description" \in DOMAIN doc
       /\ Includes(doc.description, term)

\* The filter's predicate (:213-216); doc.description?. is undefined, hence
\* falsy, for a document without description
MatchesSearch(doc, term) ==
    \/ Includes(ToLowerCase(doc.filename), ToLowerCase(term))
    \/ /\ "description" \in DOMAIN doc
       /\ Includes(ToLowerCase(doc.description), ToLowerCase(term))

\* Array.prototype.filter
RECURSIVE FilterDocs(_, _, _)
FilterDocs(docs, term, i) ==
    IF i > Len(docs) THEN <<>>
    ELSE (IF MatchesSearch(docs[i], term) THEN <<docs[i]>> ELSE <<>>)
         \o FilterDocs(docs, term, i + 1)

\* A size comparator with its operands swapped: smallest first
CompareSize_Ascending(a, b) == a.size - b.size

\* The comparators of the sort (:217-227)
CompareFilename(a, b) == LocaleCompare(a.filename, b.filename)
CompareSize(a, b) == b.size - a.size
CompareUploadDate(a, b) == ParseDate(b.upload_date) - ParseDate(a.upload_date)

Compare(key, a, b) ==
    CASE key = "filename" -> CompareFilename(a, b)
      [] key = "size"     -> CompareSize(a, b)
      [] OTHER            -> CompareUploadDate(a, b)

\* Array.prototype.sort is stable: x goes behind every element that does not
\* compare greater than it
RECURSIVE InsertSorted(_, _, _, _)
InsertSorted(key, sorted, x, i) ==
    IF i > Len(sorted) THEN Append(sorted, x)
    ELSE IF Compare(key, sorted[i], x) > 0
         THEN SubSeq(sorted, 1, i - 1) \o <<x>> \o SubSeq(sorted, i, Len(sorted))
         ELSE InsertSorted(key, sorted, x, i + 1)

RECURSIVE SortDocs(_, _, _, _)
SortDocs(key, docs, i, sorted) ==
    IF i > Len(docs) THEN sorted
    ELSE SortDocs(key, docs, i + 1, InsertSorted(key, sorted, docs[i], 1))

\* documents.filter(...).sort(...)
FilteredDocuments(docs, term, key) ==
    SortDocs(key, FilterDocs(docs, term, 1), 1, <<>>)

\* The list the component renders
filteredDocuments == FilteredDocuments(documents, searchTerm, sortBy)

\* useEffect(() => { fetchDocuments(); fetchAiProviders(); }, []), each up
\* to its await
DocsMount ==
    /\ ~docsMounted
    /\ docsMounted' = TRUE
    /\ docsFetches' = docsFetches + 1
    /\ UNCHANGED docsOvertaken
    /\ providersFetch' = "pending"
    /\ received' = <<>>
    /\ sent' = <<GetDocuments, GetProviders>>
    /\ toasts' = <<>>
    /\ UNCHANGED <<documents, loading, searchTerm, viewMode, sortBy, aiProviders>>
    /\ UNCHANGED <<docFileVars, docTaskVars, gestures>>
    /\ UNCHANGED <<appVars, dashVars, chatVars>>
    /\ effects' = <<>>

\* A fetchDocuments that starts with setLoading(true)
RefreshDocuments_SetsLoading ==
    /\ docsMounted /\ ~loading
    /\ docsFetches < MaxFetches
    /\ docsFetches' = docsFetches + 1
    /\ loading' = TRUE
    /\ received' = <<>>
    /\ sent' = <<GetDocuments>>
    /\ toasts' = <<>>
    /\ UNCHANGED <<documents, searchTerm, viewMode, sortBy, aiProviders,
                   docsMounted, docsOvertaken, providersFetch>>
    /\ UNCHANGED <<docFileVars, docTaskVars, gestures>>
    /\ UNCHANGED <<appVars, dashVars, chatVars>>
    /\ effects' = <<>>

\* The Refresh button (:258-265), rendered once loading is false
RefreshDocuments ==
    /\ docsMounted /\ ~loading
    /\ docsFetches < MaxFetches
    /\ docsFetches' = docsFetches + 1
    /\ UNCHANGED docsOvertaken
    /\ received' = <<>>
    /\ sent' = <<GetDocuments>>
    /\ toasts' = <<>>
    /\ UNCHANGED <<documents, loading, searchTerm, viewMode, sortBy, aiProviders,
                   docsMounted, providersFetch>>
    /\ UNCHANGED <<docFileVars, docTaskVars, gestures>>
    /\ UNCHANGED <<appVars, dashVars, chatVars>>
    /\ effects' = <<>>

\* fetchDocuments after the await, the request fulfilled with `data`.  The
\* requests in flight are numbered from the oldest; the k-th is the one that
\* settles, in whatever order the responses arrive, and setDocuments writes
\* its data whether or not a younger request's response is already shown.
FetchDocumentsSuccess ==
    /\ \E k \in 1..docsFetches, data \in DocLists :
         /\ documents' = data
         /\ received' = <<Fulfilled("/api/documents", data)
                           @@ [overtaken |-> k <= docsOvertaken]>>
         /\ docsOvertaken' = IF k <= docsOvertaken THEN docsOvertaken - 1 ELSE k - 1
    /\ loading' = FALSE
    /\ docsFetches' = docsFetches - 1
    /\ sent' = <<>>
    /\ toasts' = <<>>
    /\ UNCHANGED <<searchTerm, viewMode, sortBy, aiProviders, docsMounted, providersFetch>>
    /\ UNCHANGED <<docFileVars, docTaskVars, gestures>>
    /\ UNCHANGED <<appVars, dashVars, chatVars>>
    /\ effects' = <<>>

\* fetchDocuments after the await, the request rejected
FetchDocumentsFailure ==
    /\ \E k \in 1..docsFetches :
         docsOvertaken' = IF k <= docsOvertaken THEN docsOvertaken - 1 ELSE docsOvertaken
    /\ loading' = FALSE
    /\ docsFetches' = docsFetches - 1
    /\ received' = <<Rejected("/api/documents", NetworkError)>>
    /\ sent' = <<>>
    /\ toasts' = <<ToastError("Failed to load documents")>>
    /\ UNCHANGED <<documents, searchTerm, viewMode, sortBy, aiProviders,
                   docsMounted, providersFetch>>
    /\ UNCHANGED <<docFileVars, docTaskVars, gestures>>
    /\ UNCHANGED <<appVars, dashVars, chatVars>>
    /\ effects' = <<>>

\* fetchAiProviders after the await: fulfilled, or rejected (logged only)
FetchProvidersSettle ==
    /\ providersFetch = "pending"
    /\ providersFetch' = "settled"
    /\ \E ok \in BOOLEAN :
         /\ aiProviders' = IF ok THEN ProviderList ELSE aiProviders
         /\ received' = IF ok THEN <<Fulfilled("/api/ai/providers", ProviderList)>>
                              ELSE <<Rejected("/api/ai/providers", NetworkError)>>
    /\ sent' = <<>>
    /\ toasts' = <<>>
    /\ UNCHANGED <<documents, loading, searchTerm, viewMode, sortBy,
                   docsMounted, docsFetches, docsOvertaken>>
    /\ UNCHANGED <<docFileVars, docTaskVars, gestures>>
    /\ UNCHANGED <<appVars, dashVars, chatVars>>
    /\ effects' = <<>>

\* The search box, rendered when the list is not empty (:323-339)
SetSearchTerm ==
    /\ docsMounted /\ ~loading /\ Len(documents) > 0
    /\ \E term \in SearchTerms :
         searchTerm' = term
    /\ received' = <<>>
    /\ sent' = <<>>
    /\ toasts' = <<>>
    /\ UNCHANGED <<documents, loading, viewMode, sortBy, aiProviders,
                   docsMounted, docsFetches, docsOvertaken, providersFetch>>
    /\ UNCHANGED <<docFileVars, docTaskVars, gestures>>
    /\ UNCHANGED <<appVars, dashVars, chatVars>>
    /\ effects' = <<>>

\* The sort-by Select, rendered beside the search box (:341-350)
SetSortBy ==
    /\ docsMounted /\ ~loading /\ Len(documents) > 0
    /\ \E key \in SortKeys :
         sortBy' = key
    /\ received' = <<>>
    /\ sent' = <<>>
    /\ toasts' = <<>>
    /\ UNCHANGED <<documents, loading, searchTerm, viewMode, aiProviders,
                   docsMounted, docsFetches, docsOvertaken, providersFetch>>
    /\ UNCHANGED <<docFileVars, docTaskVars, gestures>>
    /\ UNCHANGED <<appVars, dashVars, chatVars>>
    /\ effects' = <<>>

\* The grid and list buttons (:352-367)
SetViewMode ==
    /\ docsMounted /\ ~loading /\ Len(documents) > 0
    /\ \E mode \in {"grid", "list"} :
         viewMode' = mode
    /\ received' = <<>>
    /\ sent' = <<>>
    /\ toasts' = <<>>
    /\ UNCHANGED <<documents, loading, searchTerm, sortBy, aiProviders,
                   docsMounted, docsFetches, docsOvertaken, providersFetch>>
    /\ UNCHANGED <<docFileVars, docTaskVars, gestures>>
    /\ UNCHANGED <<appVars, dashVars, chatVars>>
    /\ effects' = <<>>

-----------------------------------------------------------------------------
(* DocumentManager: upload, delete, download *)

\* Bound: the calls of deleteDocument and downloadDocument that wait at
\* their await at once
MaxCalls == 1

\* Bound: the calls of onDrop that wait at their await at once
MaxUploads == 2

\* The files a drop hands to onDrop.  useDropzone is configured with
\* multiple: false, so acceptedFiles holds at most one file; a file can be
\* accepted by its .pdf name while its type is not application/pdf.
PdfFile   == [name |-> <<"f">>, type |-> "application/pdf"]
OtherFile == [name |-> <<"g">>, type |-> ""]
AcceptedFiles == { <<>>, <<PdfFile>>, <<OtherFile>> }

\* The errors axios rejects with: without or with response.data.detail
RequestErrors == { NetworkError, DetailedError }

UploadRequest(file) ==
    [method |-> "POST", url |-> "/api/documents/upload", body |-> [file |-> file]]

\* `${API}/documents/${docId}` and `${API}/documents/${docId}/download`
DeleteRequest(docId) ==
    [method |-> "DELETE", url |-> "/api/documents/:docId", docId |-> docId]
DownloadRequest(docId) ==
    [method |-> "GET", url |-> "/api/documents/:docId/download", docId |-> docId]

\* window.confirm(text) answered with `answer`
Confirm(text, answer) == [kind |-> "confirm", text |-> text, answer |-> answer]
\* link.download = filename; link.click()
Download(filename) == [kind |-> "download", filename |-> filename]

\* Removes the k-th of the waiting calls
Without(calls, k) == SubSeq(calls, 1, k - 1) \o SubSeq(calls, k + 1, Len(calls))

\* An onDrop without the type check
IsPdf_Any(file) == TRUE

\* The condition under which onDrop goes on to upload the file
IsPdf(file) == file.type = "application/pdf"

\* onDrop up to its await (:50-66).  The drop zone is rendered once loading
\* is false.  While uploading is true its root only gets the classes
\* pointer-events-none opacity-50 (:272-276): useDropzone is not disabled, and
\* onDrop does not read uploading, so a file chosen through the keyboard
\* (the root is focusable, Enter or Space opens the file dialog) reaches
\* onDrop while an upload is in flight.
onDropFiles(acceptedFiles) ==
    /\ docsMounted /\ ~loading
    /\ IF acceptedFiles = <<>>
         THEN /\ sent' = <<>>
              /\ toasts' = <<>>
              /\ UNCHANGED <<uploading, uploads>>
         ELSE LET file == acceptedFiles[1]
              IN  IF ~IsPdf(file)
                    THEN /\ sent' = <<>>
                         /\ toasts' = <<ToastError("Only PDF files are supported")>>
                         /\ UNCHANGED <<uploading, uploads>>
                    ELSE /\ Len(uploads) < MaxUploads
                         /\ uploading' = TRUE
                         /\ uploads' = Append(uploads, file.name)
                         /\ sent' = <<UploadRequest(file)>>
                         /\ toasts' = <<>>
    /\ received' = <<>>
    /\ effects' = <<>>
    /\ UNCHANGED <<deletes, downloads>>
    /\ UNCHANGED <<docListVars, docTaskVars, gestures>>
    /\ UNCHANGED <<appVars, dashVars, chatVars>>

\* A drop on the drop zone, or a file picked in its file dialog
onDrop == \E acceptedFiles \in AcceptedFiles : onDropFiles(acceptedFiles)

\* An onDrop that does not fetch the list again after the upload
UploadSuccess_NoRefetch ==
    /\ \E k \in 1..Len(uploads) :
         /\ uploads' = Without(uploads, k)
         /\ toasts' = <<ToastSuccessOf("Successfully uploaded ${file.name}", uploads[k])>>
    /\ sent' = <<>>
    /\ uploading' = FALSE
    /\ received' = <<Fulfilled("/api/documents/upload", Null)>>
    /\ effects' = <<>>
    /\ UNCHANGED <<deletes, downloads>>
    /\ UNCHANGED <<docListVars, docTaskVars, gestures>>
    /\ UNCHANGED <<appVars, dashVars, chatVars>>

\* onDrop after the await, the upload fulfilled: toast, fetchDocuments() up to
\* its await, finally (:68-75)
UploadSuccess ==
    /\ docsFetches < MaxFetches
    /\ \E k \in 1..Len(uploads) :
         /\ uploads' = Without(uploads, k)
         /\ toasts' = <<ToastSuccessOf("Successfully uploaded ${file.name}", uploads[k])>>
    /\ docsFetches' = docsFetches + 1
    /\ UNCHANGED docsOvertaken
    /\ sent' = <<GetDocuments>>
    /\ uploading' = FALSE
    /\ received' = <<Fulfilled("/api/documents/upload", Null)>>
    /\ effects' = <<>>
    /\ UNCHANGED <<deletes, downloads>>
    /\ UNCHANGED <<documents, loading, searchTerm, viewMode, sortBy, aiProviders,
                   docsMounted, providersFetch>>
    /\ UNCHANGED <<docTaskVars, gestures>>
    /\ UNCHANGED <<appVars, dashVars, chatVars>>

\* onDrop after the await, the upload rejected: catch, finally (:70-75)
UploadFailure ==
    /\ \E k \in 1..Len(uploads), error \in RequestErrors :
         /\ uploads' = Without(uploads, k)
         /\ toasts' = <<ToastErrorOf("Upload failed: ${detail || message}",
                                     ErrorDetail(error))>>
         /\ received' = <<Rejected("/api/documents/upload", error)>>
    /\ uploading' = FALSE
    /\ sent' = <<>>
    /\ effects' = <<>>
    /\ UNCHANGED <<deletes, downloads>>
    /\ UNCHANGED <<docListVars, docTaskVars, gestures>>
    /\ UNCHANGED <<appVars, dashVars, chatVars>>

\* A deleteDocument that does not wait for the answer
DeleteProceeds_Always(confirmed) == TRUE

\* if (!window.confirm(...)) return;
DeleteProceeds(confirmed) == confirmed

\* deleteDocument up to its await (:134-140), from the card of a displayed
\* document; window.confirm is answered with `confirmed`
deleteDocument ==
    /\ docsMounted /\ ~loading /\ ~aiTaskDialogOpen
    /\ \E i \in 1..Len(filteredDocuments), confirmed \in BOOLEAN :
         LET doc == filteredDocuments[i]
         IN  /\ effects' = <<Confirm(<<"Are you sure you want to delete ">> \o doc.filename,
                                     confirmed)>>
             /\ IF ~DeleteProceeds(confirmed)
                  THEN /\ sent' = <<>>
                       /\ UNCHANGED deletes
                  ELSE /\ Len(deletes) + Len(downloads) < MaxCalls
                       /\ sent' = <<DeleteRequest(doc.id)>>
                       /\ deletes' = Append(deletes, doc.id)
    /\ received' = <<>>
    /\ toasts' = <<>>
    /\ UNCHANGED <<uploading, uploads, downloads>>
    /\ UNCHANGED <<docListVars, docTaskVars, gestures>>
    /\ UNCHANGED <<appVars, dashVars, chatVars>>

\* A deleteDocument that also takes the document out of the list itself
DeleteSuccess_RemovesLocally ==
    /\ docsFetches < MaxFetches
    /\ \E k \in 1..Len(deletes) :
         /\ deletes' = Without(deletes, k)
         /\ received' = <<Fulfilled("/api/documents/:docId", Null) @@ [docId |-> deletes[k]]>>
         /\ documents' = SelectSeq(documents, LAMBDA doc : doc.id # deletes[k])
    /\ toasts' = <<ToastSuccess("Document deleted successfully")>>
    /\ docsFetches' = docsFetches + 1
    /\ UNCHANGED docsOvertaken
    /\ sent' = <<GetDocuments>>
    /\ effects' = <<>>
    /\ UNCHANGED <<uploading, uploads, downloads>>
    /\ UNCHANGED <<loading, searchTerm, viewMode, sortBy, aiProviders,
                   docsMounted, providersFetch>>
    /\ UNCHANGED <<docTaskVars, gestures>>
    /\ UNCHANGED <<appVars, dashVars, chatVars>>

\* deleteDocument after the await, the request fulfilled: toast,
\* fetchDocuments() up to its await (:141-142)
DeleteSuccess ==
    /\ docsFetches < MaxFetches
    /\ \E k \in 1..Len(deletes) :
         /\ deletes' = Without(deletes, k)
         /\ received' = <<Fulfilled("/api/documents/:docId", Null) @@ [docId |-> deletes[k]]>>
    /\ toasts' = <<ToastSuccess("Document deleted successfully")>>
    /\ docsFetches' = docsFetches + 1
    /\ UNCHANGED docsOvertaken
    /\ sent' = <<GetDocuments>>
    /\ effects' = <<>>
    /\ UNCHANGED <<uploading, uploads, downloads>>
    /\ UNCHANGED <<documents, loading, searchTerm, viewMode, sortBy, aiProviders,
                   docsMounted, providersFetch>>
    /\ UNCHANGED <<docTaskVars, gestures>>
    /\ UNCHANGED <<appVars, dashVars, chatVars>>

\* deleteDocument after the await, the request rejected (:143-146)
DeleteFailure ==
    /\ \E k \in 1..Len(deletes), error \in RequestErrors :
         /\ deletes' = Without(deletes, k)
         /\ received' = <<Rejected("/api/documents/:docId", error) @@ [docId |-> deletes[k]]>>
    /\ toasts' = <<ToastError("Failed to delete document")>>
    /\ sent' = <<>>
    /\ effects' = <<>>
    /\ UNCHANGED <<uploading, uploads, downloads>>
    /\ UNCHANGED <<docListVars, docTaskVars, gestures>>
    /\ UNCHANGED <<appVars, dashVars, chatVars>>

\* downloadDocument up to its await (:112-116), from the card of a displayed
\* document
downloadDocument ==
    /\ docsMounted /\ ~loading /\ ~aiTaskDialogOpen
    /\ Len(deletes) + Len(downloads) < MaxCalls
    /\ \E i \in 1..Len(filteredDocuments) :
         LET doc == filteredDocuments[i]
         IN  /\ sent' = <<DownloadRequest(doc.id)>>
             /\ downloads' = Append(downloads, [docId |-> doc.id, filename |-> doc.filename])
    /\ received' = <<>>
    /\ toasts' = <<>>
    /\ effects' = <<>>
    /\ UNCHANGED <<uploading, uploads, deletes>>
    /\ UNCHANGED <<docListVars, docTaskVars, gestures>>
    /\ UNCHANGED <<appVars, dashVars, chatVars>>

\* downloadDocument after the await, the request fulfilled: the blob is
\* saved through a temporary link (:118-127)
DownloadSuccess ==
    /\ \E k \in 1..Len(downloads) :
         /\ downloads' = Without(downloads, k)
         /\ effects' = <<Download(downloads[k].filename)>>
         /\ received' = <<Fulfilled("/api/documents/:docId/download", Null)
                           @@ [docId |-> downloads[k].docId]>>
    /\ toasts' = <<ToastSuccess("Download started")>>
    /\ sent' = <<>>
    /\ UNCHANGED <<uploading, uploads, deletes>>
    /\ UNCHANGED <<docListVars, docTaskVars, gestures>>
    /\ UNCHANGED <<appVars, dashVars, chatVars>>

\* downloadDocument after the await, the request rejected (:128-131)
DownloadFailure ==
    /\ \E k \in 1..Len(downloads), error \in RequestErrors :
         /\ downloads' = Without(downloads, k)
         /\ received' = <<Rejected("/api/documents/:docId/download", error)
                           @@ [docId |-> downloads[k].docId]>>
    /\ toasts' = <<ToastError("Download failed")>>
    /\ sent' = <<>>
    /\ effects' = <<>>
    /\ UNCHANGED <<uploading, uploads, deletes>>
    /\ UNCHANGED <<docListVars, docTaskVars, gestures>>
    /\ UNCHANGED <<appVars, dashVars, chatVars>>

DocsFilesNext ==
    \/ DocsMount
    \/ RefreshDocuments
    \/ FetchDocumentsSuccess
    \/ FetchDocumentsFailure
    \/ FetchProvidersSettle
    \/ onDrop
    \/ UploadSuccess
    \/ UploadFailure
    \/ deleteDocument
    \/ DeleteSuccess
    \/ DeleteFailure
    \/ downloadDocument
    \/ DownloadSuccess
    \/ DownloadFailure

-----------------------------------------------------------------------------
(* DocumentManager: the AI task dialog *)

\* The items of the task type Select (:442-447)
TaskTypes == {"summarize", "extract_key_points", "rewrite", "analyze", "translate",
              "compress_suggestions"}

\* What the user types as additional instructions: nothing, or a text
TaskInstructionTexts == { <<>>, <<" ", "i">> }

\* response.data.result of POST /api/ai/tasks
TaskResults == { <<"r">> }

\* The TypeError of resultWindow.document when window.open returned null
NoWindowError == [message |-> <<"t">>]

\* window.open('', '_blank') and the document written into it (:166-179)
Tab(taskType, filename, result) ==
    [kind |-> "tab", heading |-> taskType, filename |-> filename, result |-> result]

\* A body that always carries the instructions, empty or not
WithInstructions_Always(body, instructions) ==
    body @@ [additional_instructions |-> instructions]

\* additional_instructions: aiTaskInstructions || undefined; a key whose value
\* is undefined is left out of the JSON body
WithInstructions(body, instructions) ==
    IF instructions # <<>> THEN body @@ [additional_instructions |-> instructions]
    ELSE body

AiTaskRequest(document, taskType, instructions, provider, model) ==
    [method |-> "POST", url |-> "/api/ai/tasks",
     body |-> WithInstructions([document_id    |-> document.id,
                                task_type      |-> taskType,
                                model_provider |-> provider,
                                model_name     |-> model],
                               instructions)]

\* onAiTask of the card of a displayed document (:411-414); the open dialog
\* is modal
OpenAiTaskDialog ==
    /\ docsMounted /\ ~loading /\ ~aiTaskDialogOpen
    /\ \E i \in 1..Len(filteredDocuments) :
         selectedDocument' = filteredDocuments[i]
    /\ aiTaskDialogOpen' = TRUE
    /\ sent' = <<>> /\ received' = <<>> /\ toasts' = <<>> /\ effects' = <<>>
    /\ UNCHANGED <<aiTaskType, aiTaskInstructions, aiTaskProvider, aiTaskModel,
                   aiTaskLoading, aiTasks>>
    /\ UNCHANGED <<docListVars, docFileVars, gestures>>
    /\ UNCHANGED <<appVars, dashVars, chatVars>>

\* onOpenChange(false) (:423): Escape, the overlay or the dialog's X, at any
\* time; and the Cancel button (:502-508) while no task is loading
CloseAiTaskDialog ==
    /\ aiTaskDialogOpen
    /\ aiTaskDialogOpen' = FALSE
    /\ sent' = <<>> /\ received' = <<>> /\ toasts' = <<>> /\ effects' = <<>>
    /\ UNCHANGED <<selectedDocument, aiTaskType, aiTaskInstructions, aiTaskProvider,
                   aiTaskModel, aiTaskLoading, aiTasks>>
    /\ UNCHANGED <<docListVars, docFileVars, gestures>>
    /\ UNCHANGED <<appVars, dashVars, chatVars>>

\* The task type Select (:436-448)
SetAiTaskType ==
    /\ aiTaskDialogOpen
    /\ \E taskType \in TaskTypes : aiTaskType' = taskType
    /\ sent' = <<>> /\ received' = <<>> /\ toasts' = <<>> /\ effects' = <<>>
    /\ UNCHANGED <<selectedDocument, aiTaskDialogOpen, aiTaskInstructions, aiTaskProvider,
                   aiTaskModel, aiTaskLoading, aiTasks>>
    /\ UNCHANGED <<docListVars, docFileVars, gestures>>
    /\ UNCHANGED <<appVars, dashVars, chatVars>>

\* The instructions Textarea (:492-497)
SetAiTaskInstructions ==
    /\ aiTaskDialogOpen
    /\ \E text \in TaskInstructionTexts : aiTaskInstructions' = text
    /\ sent' = <<>> /\ received' = <<>> /\ toasts' = <<>> /\ effects' = <<>>
    /\ UNCHANGED <<selectedDocument, aiTaskDialogOpen, aiTaskType, aiTaskProvider,
                   aiTaskModel, aiTaskLoading, aiTasks>>
    /\ UNCHANGED <<docListVars, docFileVars, gestures>>
    /\ UNCHANGED <<appVars, dashVars, chatVars>>

\* The provider Select (:455-466): its items are the fetched providers
SetAiTaskProvider ==
    /\ aiTaskDialogOpen
    /\ \E i \in 1..Len(aiProviders) : aiTaskProvider' = aiProviders[i].name
    /\ sent' = <<>> /\ received' = <<>> /\ toasts' = <<>> /\ effects' = <<>>
    /\ UNCHANGED <<selectedDocument, aiTaskDialogOpen, aiTaskType, aiTaskInstructions,
                   aiTaskModel, aiTaskLoading, aiTasks>>
    /\ UNCHANGED <<docListVars, docFileVars, gestures>>
    /\ UNCHANGED <<appVars, dashVars, chatVars>>

\* The model Select (:471-486): its items are the models of the fetched
\* provider named aiTaskProvider
SetAiTaskModel ==
    /\ aiTaskDialogOpen
    /\ \E i \in 1..Len(aiProviders) :
         /\ aiProviders[i].name = aiTaskProvider
         /\ \A j \in 1..(i - 1) : aiProviders[j].name # aiTaskProvider
         /\ \E m \in 1..Len(aiProviders[i].available_models) :
              aiTaskModel' = aiProviders[i].available_models[m]
    /\ sent' = <<>> /\ received' = <<>> /\ toasts' = <<>> /\ effects' = <<>>
    /\ UNCHANGED <<selectedDocument, aiTaskDialogOpen, aiTaskType, aiTaskInstructions,
                   aiTaskProvider, aiTaskLoading, aiTasks>>
    /\ UNCHANGED <<docListVars, docFileVars, gestures>>
    /\ UNCHANGED <<appVars, dashVars, chatVars>>

\* The requests of one call of performAiTask: if (!selectedDocument) return;
\* then one axios.post (:150-161)
PerformAiTaskRequests(selected, taskType, instructions, provider, model) ==
    IF selected = Null
      THEN <<>>
      ELSE <<AiTaskRequest(selected, taskType, instructions, provider, model)>>

\* performAiTask up to its await (:150-161), from the dialog's Run button,
\* which is disabled while a task is loading
performAiTask ==
    /\ aiTaskDialogOpen /\ ~aiTaskLoading
    /\ sent' = PerformAiTaskRequests(selectedDocument, aiTaskType, aiTaskInstructions,
                                     aiTaskProvider, aiTaskModel)
    /\ IF selectedDocument = Null
         THEN UNCHANGED <<aiTaskLoading, aiTasks>>
         ELSE /\ aiTaskLoading' = TRUE
              /\ aiTasks' = Append(aiTasks, [document |-> selectedDocument,
                                             taskType |-> aiTaskType])
    /\ received' = <<>> /\ toasts' = <<>> /\ effects' = <<>>
    /\ UNCHANGED <<selectedDocument, aiTaskDialogOpen, aiTaskType, aiTaskInstructions,
                   aiTaskProvider, aiTaskModel>>
    /\ UNCHANGED <<docListVars, docFileVars, gestures>>
    /\ UNCHANGED <<appVars, dashVars, chatVars>>

\* performAiTask after the await, the request fulfilled (:163-189).
\* window.open returns the new tab, or null when the browser blocks it; on
\* null, resultWindow.document throws and the catch block runs.
AiTaskSuccess ==
    /\ \E k \in 1..Len(aiTasks), result \in TaskResults, opened \in BOOLEAN :
         LET call == aiTasks[k]
             done == ToastSuccessOf("${aiTaskType} completed successfully!",
                                    <<call.taskType>>)
         IN  /\ aiTasks' = Without(aiTasks, k)
             /\ received' = <<Fulfilled("/api/ai/tasks", [result |-> result])>>
             /\ IF opened
                  THEN /\ effects' = <<Tab(call.taskType, call.document.filename, result)>>
                       /\ toasts' = <<done>>
                       /\ aiTaskDialogOpen' = FALSE
                       /\ aiTaskInstructions' = <<>>
                  ELSE /\ effects' = <<>>
                       /\ toasts' = <<done, ToastErrorOf("AI task failed: ${detail || message}",
                                                         ErrorDetail(NoWindowError))>>
                       /\ UNCHANGED <<aiTaskDialogOpen, aiTaskInstructions>>
    /\ aiTaskLoading' = FALSE
    /\ sent' = <<>>
    /\ UNCHANGED <<selectedDocument, aiTaskType, aiTaskProvider, aiTaskModel>>
    /\ UNCHANGED <<docListVars, docFileVars, gestures>>
    /\ UNCHANGED <<appVars, dashVars, chatVars>>

\* A performAiTask that resets aiTaskLoading only in its try block
AiTaskFailure_KeepsLoading ==
    /\ \E k \in 1..Len(aiTasks), error \in RequestErrors :
         /\ aiTasks' = Without(aiTasks, k)
         /\ received' = <<Rejected("/api/ai/tasks", error)>>
         /\ toasts' = <<ToastErrorOf("AI task failed: ${detail || message}",
                                     ErrorDetail(error))>>
    /\ sent' = <<>>
    /\ effects' = <<>>
    /\ UNCHANGED <<selectedDocument, aiTaskDialogOpen, aiTaskType, aiTaskInstructions,
                   aiTaskProvider, aiTaskModel, aiTaskLoading>>
    /\ UNCHANGED <<docListVars, docFileVars, gestures>>
    /\ UNCHANGED <<appVars, dashVars, chatVars>>

\* performAiTask after the await, the request rejected (:184-189)
AiTaskFailure ==
    /\ \E k \in 1..Len(aiTasks), error \in RequestErrors :
         /\ aiTasks' = Without(aiTasks, k)
         /\ received' = <<Rejected("/api/ai/tasks", error)>>
         /\ toasts' = <<ToastErrorOf("AI task failed: ${detail || message}",
                                     ErrorDetail(error))>>
    /\ aiTaskLoading' = FALSE
    /\ sent' = <<>>
    /\ effects' = <<>>
    /\ UNCHANGED <<selectedDocument, aiTaskDialogOpen, aiTaskType, aiTaskInstructions,
                   aiTaskProvider, aiTaskModel>>
    /\ UNCHANGED <<docListVars, docFileVars, gestures>>
    /\ UNCHANGED <<appVars, dashVars, chatVars>>

DocsTaskNext ==
    \/ DocsMount
    \/ FetchDocumentsSuccess
    \/ FetchDocumentsFailure
    \/ FetchProvidersSettle
    \/ OpenAiTaskDialog
    \/ CloseAiTaskDialog
    \/ SetAiTaskType
    \/ SetAiTaskInstructions
    \/ SetAiTaskProvider
    \/ SetAiTaskModel
    \/ performAiTask
    \/ AiTaskSuccess
    \/ AiTaskFailure

\* The controls the user works with during one visit of the view: the list
\* controls, the file operations, or the AI task dialog.  It is chosen before
\* the view mounts and only read by DocsAllNext.
GestureGroups == {"list", "files", "task"}

ChooseGestures ==
    /\ gestures = "any" /\ ~docsMounted
    /\ \E group \in GestureGroups : gestures' = group
    /\ sent' = <<>> /\ received' = <<>> /\ toasts' = <<>> /\ effects' = <<>>
    /\ UNCHANGED <<docListVars, docFileVars, docTaskVars>>
    /\ UNCHANGED <<appVars, dashVars, chatVars>>

DocsNext ==
    \/ DocsMount
    \/ RefreshDocuments
    \/ FetchDocumentsSuccess
    \/ FetchDocumentsFailure
    \/ FetchProvidersSettle
    \/ SetSearchTerm
    \/ SetSortBy
    \/ SetViewMode

\* Every operation of the view, the visit's gestures taken from one group
DocsAllNext ==
    \/ ChooseGestures
    \/ gestures = "list" /\ DocsNext
    \/ gestures = "files" /\ DocsFilesNext
    \/ gestures = "task" /\ DocsTaskNext

-----------------------------------------------------------------------------
(* AIChat *)

\* Bounds: the length of the transcript at which a message can still be
\* sent and answered, the length of the document list, and the number of
\* GET /api/documents in flight at once
MaxMessages == 4
MaxChatDocs == 1
MaxChatFetches == 1

\* What the user types: nothing, blanks only, two words between blanks
InputTexts == { <<>>, <<" ">>, <<" ", "a", " ", "b", " ">> }
\* The slider positions tried (tenths; 0.7 is the initial one)
Temperatures == {7, 15}

\* What the backend can answer a chat request with
ReplyContents == { <<"r">>, <<"s">> }
\* The errors axios can reject with: with or without response.data.detail
ChatErrors == { [message |-> <<"m">>],
                [message |-> <<"m">>, detail |-> <<"d">>],
                [message |-> <<"m">>, detail |-> <<>>] }

\* The document lists AIChat's GET /api/documents is answered with
ChatDocLists == DocListsOf({ d \in DocCatalog : d.id <= 2 }, MaxChatDocs)

\* String.prototype.trim
RECURSIVE TrimStart(_)
TrimStart(s) == IF s # <<>> /\ Head(s) = " " THEN TrimStart(Tail(s)) ELSE s

RECURSIVE TrimEnd(_)
TrimEnd(s) ==
    IF s # <<>> /\ s[Len(s)] = " " THEN TrimEnd(SubSeq(s, 1, Len(s) - 1)) ELSE s

Trim(s) == TrimEnd(TrimStart(s))

\* initializeChat's welcomeMessage
WelcomeMessage ==
    [role |-> "assistant", content |-> <<"Welcome to PDFLux AI Chat!">>, isError |-> FALSE]

\* An initializeChat that empties the transcript
InitializeChat_Empty == <<>>

\* initializeChat: setMessages([welcomeMessage])
InitializeChat == <<WelcomeMessage>>

UserMessage(text) == [role |-> "user", content |-> text, isError |-> FALSE]

AssistantMessage(text) == [role |-> "assistant", content |-> text, isError |-> FALSE]

ErrorMessage(error) ==
    [role |-> "assistant",
     content |-> <<"Sorry, I encountered an error: ">> \o ErrorDetail(error)
                 \o <<". Please try again or check your settings.">>,
     isError |-> TRUE]

\* newMessages.map(msg => ({role, content, timestamp}))
RequestMessages(msgs) ==
    [i \in 1..Len(msgs) |-> [role |-> msgs[i].role, content |-> msgs[i].content]]

\* A request that always carries the field: document_id: selectedDocument?.id ?? null
WithDocumentId_Always(body, selected) ==
    body @@ [document_id |-> IF selected # Null THEN selected.id ELSE Null]

\* if (selectedDocument) chatRequest.document_id = selectedDocument.id
WithDocumentId(body, selected) ==
    IF selected # Null THEN body @@ [document_id |-> selected.id] ELSE body

ChatRequest(newMessages, provider, model, temp, selected) ==
    [method |-> "POST", url |-> "/api/ai/chat",
     body |-> WithDocumentId([messages       |-> RequestMessages(newMessages),
                              model_provider |-> provider,
                              model_name     |-> model,
                              temperature    |-> temp],
                             selected)]

\* A user message that keeps the typed text as it is
UserContent_Untrimmed(input) == input

\* The content sendMessage gives the user's message
UserContent(input) == Trim(input)

\* setMessages([...newMessages, message]): the transcript of the call's closure
AppendToTranscript_Stale(prev, captured, message) == Append(captured, message)

\* setMessages(prev => [...prev, message]): `prev` is the transcript when the
\* update is applied, `captured` the newMessages of the call's closure
AppendToTranscript(prev, captured, message) == Append(prev, message)

\* getAvailableModels
GetAvailableModels(providers, providerName) ==
    IF \E i \in 1..Len(providers) : providers[i].name = providerName
      THEN providers[CHOOSE i \in 1..Len(providers) :
                       /\ providers[i].name = providerName
                       /\ \A j \in 1..(i - 1) : providers[j].name # providerName
                    ].available_models
      ELSE <<>>

\* useEffect(() => { fetchDocuments(); fetchAiProviders(); initializeChat(); }, [])
ChatMount ==
    /\ ~chatMounted
    /\ chatMounted' = TRUE
    /\ chatDocsFetches' = chatDocsFetches + 1
    /\ chatProvidersFetch' = "pending"
    /\ messages' = InitializeChat
    /\ received' = <<>>
    /\ sent' = <<GetDocuments, GetProviders>>
    /\ toasts' = <<>>
    /\ UNCHANGED <<inputMessage, isLoading, chatSelectedDocument, chatDocuments,
                   chatAiProviders, currentProvider, currentModel, temperature,
                   chatPending>>
    /\ UNCHANGED <<appVars, dashVars, docVars>>
    /\ effects' = <<>>

\* The refresh button of the document list (part_000:770-777)
ChatRefreshDocuments ==
    /\ chatMounted
    /\ chatDocsFetches < MaxChatFetches
    /\ chatDocsFetches' = chatDocsFetches + 1
    /\ received' = <<>>
    /\ sent' = <<GetDocuments>>
    /\ toasts' = <<>>
    /\ UNCHANGED <<messages, inputMessage, isLoading, chatSelectedDocument,
                   chatDocuments, chatAiProviders, currentProvider, currentModel,
                   temperature, chatMounted, chatPending, chatProvidersFetch>>
    /\ UNCHANGED <<appVars, dashVars, docVars>>
    /\ effects' = <<>>

\* AIChat.fetchDocuments after the await: fulfilled with `data`, or rejected
ChatFetchDocumentsSettle ==
    /\ chatDocsFetches > 0
    /\ chatDocsFetches' = chatDocsFetches - 1
    /\ \/ /\ \E data \in ChatDocLists :
               /\ chatDocuments' = data
               /\ received' = <<Fulfilled("/api/documents", data)>>
          /\ toasts' = <<>>
       \/ /\ UNCHANGED chatDocuments
          /\ received' = <<Rejected("/api/documents", NetworkError)>>
          /\ toasts' = <<ToastError("Failed to load documents")>>
    /\ sent' = <<>>
    /\ UNCHANGED <<messages, inputMessage, isLoading, chatSelectedDocument,
                   chatAiProviders, currentProvider, currentModel, temperature,
                   chatMounted, chatPending, chatProvidersFetch>>
    /\ UNCHANGED <<appVars, dashVars, docVars>>
    /\ effects' = <<>>

\* AIChat.fetchAiProviders after the await: fulfilled, or rejected (logged only)
ChatFetchProvidersSettle ==
    /\ chatProvidersFetch = "pending"
    /\ chatProvidersFetch' = "settled"
    /\ \E ok \in BOOLEAN :
         /\ chatAiProviders' = IF ok THEN ProviderList ELSE chatAiProviders
         /\ received' = IF ok THEN <<Fulfilled("/api/ai/providers", ProviderList)>>
                              ELSE <<Rejected("/api/ai/providers", NetworkError)>>
    /\ sent' = <<>>
    /\ toasts' = <<>>
    /\ UNCHANGED <<messages, inputMessage, isLoading, chatSelectedDocument,
                   chatDocuments, currentProvider, currentModel, temperature,
                   chatMounted, chatPending, chatDocsFetches>>
    /\ UNCHANGED <<appVars, dashVars, docVars>>
    /\ effects' = <<>>

\* The Textarea's onChange
SetInputMessage ==
    /\ chatMounted
    /\ \E text \in InputTexts : inputMessage' = text
    /\ received' = <<>>
    /\ sent' = <<>>
    /\ toasts' = <<>>
    /\ UNCHANGED <<messages, isLoading, chatSelectedDocument, chatDocuments,
                   chatAiProviders, currentProvider, currentModel, temperature,
                   chatMounted, chatPending, chatDocsFetches, chatProvidersFetch>>
    /\ UNCHANGED <<appVars, dashVars, docVars>>
    /\ effects' = <<>>

\* A click on a document of the list, or on the X of the selected document
SetSelectedDocument ==
    /\ chatMounted
    /\ \/ \E i \in 1..Len(chatDocuments) : chatSelectedDocument' = chatDocuments[i]
       \/ chatSelectedDocument # Null /\ chatSelectedDocument' = Null
    /\ received' = <<>>
    /\ sent' = <<>>
    /\ toasts' = <<>>
    /\ UNCHANGED <<messages, inputMessage, isLoading, chatDocuments,
                   chatAiProviders, currentProvider, currentModel, temperature,
                   chatMounted, chatPending, chatDocsFetches, chatProvidersFetch>>
    /\ UNCHANGED <<appVars, dashVars, docVars>>
    /\ effects' = <<>>

\* The provider Select: its items are the fetched providers
SetCurrentProvider ==
    /\ chatMounted
    /\ \E i \in 1..Len(chatAiProviders) : currentProvider' = chatAiProviders[i].name
    /\ received' = <<>>
    /\ sent' = <<>>
    /\ toasts' = <<>>
    /\ UNCHANGED <<messages, inputMessage, isLoading, chatSelectedDocument,
                   chatDocuments, chatAiProviders, currentModel, temperature,
                   chatMounted, chatPending, chatDocsFetches, chatProvidersFetch>>
    /\ UNCHANGED <<appVars, dashVars, docVars>>
    /\ effects' = <<>>

\* The model Select: its items are getAvailableModels()
SetCurrentModel ==
    /\ chatMounted
    /\ LET models == GetAvailableModels(chatAiProviders, currentProvider)
       IN  \E i \in 1..Len(models) : currentModel' = models[i]
    /\ received' = <<>>
    /\ sent' = <<>>
    /\ toasts' = <<>>
    /\ UNCHANGED <<messages, inputMessage, isLoading, chatSelectedDocument,
                   chatDocuments, chatAiProviders, currentProvider, temperature,
                   chatMounted, chatPending, chatDocsFetches, chatProvidersFetch>>
    /\ UNCHANGED <<appVars, dashVars, docVars>>
    /\ effects' = <<>>

\* The temperature slider of the settings dialog
SetTemperature ==
    /\ chatMounted
    /\ \E t \in Temperatures : temperature' = t
    /\ received' = <<>>
    /\ sent' = <<>>
    /\ toasts' = <<>>
    /\ UNCHANGED <<messages, inputMessage, isLoading, chatSelectedDocument,
                   chatDocuments, chatAiProviders, currentProvider, currentModel,
                   chatMounted, chatPending, chatDocsFetches, chatProvidersFetch>>
    /\ UNCHANGED <<appVars, dashVars, docVars>>
    /\ effects' = <<>>

\* A guard that forgets isLoading
SendBlocked_IgnoresLoading(input, busy) == Trim(input) = <<>>

\* if (!inputMessage.trim() || isLoading) return;
SendBlocked(input, busy) == Trim(input) = <<>> \/ busy

\* sendMessage up to its await (the Send button, or Enter through
\* handleKeyPress)
sendMessage ==
    /\ chatMounted
    /\ IF SendBlocked(inputMessage, isLoading)
         THEN /\ sent' = <<>>
              /\ UNCHANGED <<messages, inputMessage, isLoading, chatPending>>
         ELSE /\ Len(messages) + 2 <= MaxMessages
              /\ LET newMessages == Append(messages, UserMessage(UserContent(inputMessage)))
                 IN  /\ messages' = newMessages
                     /\ chatPending' = Append(chatPending, [newMessages |-> newMessages])
                     /\ sent' = << ChatRequest(newMessages, currentProvider, currentModel,
                                               temperature, chatSelectedDocument) >>
              /\ inputMessage' = <<>>
              /\ isLoading' = TRUE
    /\ received' = <<>>
    /\ toasts' = <<>>
    /\ UNCHANGED <<chatSelectedDocument, chatDocuments, chatAiProviders,
                   currentProvider, currentModel, temperature, chatMounted,
                   chatDocsFetches, chatProvidersFetch>>
    /\ UNCHANGED <<appVars, dashVars, docVars>>
    /\ effects' = <<>>

\* sendMessage after the await, the request fulfilled: try's rest, finally
ChatRequestSuccess ==
    /\ \E k \in 1..Len(chatPending), content \in ReplyContents :
         /\ messages' = AppendToTranscript(messages, chatPending[k].newMessages,
                                           AssistantMessage(content))
         /\ chatPending' = SubSeq(chatPending, 1, k - 1)
                           \o SubSeq(chatPending, k + 1, Len(chatPending))
         /\ received' = << Fulfilled("/api/ai/chat", [message |-> [content |-> content]])
                            @@ [closure |-> chatPending[k]] >>
    /\ isLoading' = FALSE
    /\ sent' = <<>>
    /\ toasts' = <<>>
    /\ UNCHANGED <<inputMessage, chatSelectedDocument, chatDocuments, chatAiProviders,
                   currentProvider, currentModel, temperature, chatMounted,
                   chatDocsFetches, chatProvidersFetch>>
    /\ UNCHANGED <<appVars, dashVars, docVars>>
    /\ effects' = <<>>

\* sendMessage after the await, the request rejected: catch, finally
ChatRequestFailure ==
    /\ \E k \in 1..Len(chatPending), error \in ChatErrors :
         /\ messages' = AppendToTranscript(messages, chatPending[k].newMessages,
                                           ErrorMessage(error))
         /\ chatPending' = SubSeq(chatPending, 1, k - 1)
                           \o SubSeq(chatPending, k + 1, Len(chatPending))
         /\ received' = << Rejected("/api/ai/chat", error) @@ [closure |-> chatPending[k]] >>
    /\ isLoading' = FALSE
    /\ sent' = <<>>
    /\ toasts' = <<ToastError("Chat request failed")>>
    /\ UNCHANGED <<inputMessage, chatSelectedDocument, chatDocuments, chatAiProviders,
                   currentProvider, currentModel, temperature, chatMounted,
                   chatDocsFetches, chatProvidersFetch>>
    /\ UNCHANGED <<appVars, dashVars, docVars>>
    /\ effects' = <<>>

\* A clearChat that keeps the selected document
SelectionAfterClear_Kept(selected) == selected

\* setSelectedDocument(null) of clearChat
SelectionAfterClear(selected) == Null

\* clearChat (the Clear Chat button, disabled only while the transcript
\* holds at most one message); window.confirm is answered with `confirmed`
clearChat ==
    /\ chatMounted
    /\ IF Len(messages) <= 1
         THEN /\ UNCHANGED <<messages, chatSelectedDocument>>
              /\ toasts' = <<>>
              /\ effects' = <<>>
         ELSE \E confirmed \in BOOLEAN :
                /\ effects' = <<Confirm(<<"Are you sure you want to clear the chat history?">>,
                                        confirmed)>>
                /\ IF ~confirmed
                     THEN /\ UNCHANGED <<messages, chatSelectedDocument>>
                          /\ toasts' = <<>>
                     ELSE /\ messages' = InitializeChat
                          /\ chatSelectedDocument' = SelectionAfterClear(chatSelectedDocument)
                          /\ toasts' = <<ToastSuccess("Chat cleared")>>
    /\ sent' = <<>>
    /\ received' = <<>>
    /\ UNCHANGED <<inputMessage, isLoading, chatDocuments, chatAiProviders,
                   currentProvider, currentModel, temperature, chatMounted,
                   chatPending, chatDocsFetches, chatProvidersFetch>>
    /\ UNCHANGED <<appVars, dashVars, docVars>>

ChatNext ==
    \/ ChatMount
    \/ ChatRefreshDocuments
    \/ ChatFetchDocumentsSettle
    \/ ChatFetchProvidersSettle
    \/ SetInputMessage
    \/ SetSelectedDocument
    \/ SetCurrentProvider
    \/ SetCurrentModel
    \/ SetTemperature
    \/ sendMessage
    \/ ChatRequestSuccess
    \/ ChatRequestFailure
    \/ clearChat

-----------------------------------------------------------------------------
(* The state after a first page load of "/", before any effect has run *)

Init ==
    /\ darkMode = FALSE
    /\ sidebarOpen = TRUE
    /\ appMounted = FALSE
    /\ storedTheme = NoTheme
    /\ rootDark = FALSE
    /\ prefersDark = FALSE
    /\ route = "/"
    /\ view = RouteElement("/")
    /\ lastChosen = "none"
    /\ stats = InitialStats
    /\ recentDocuments = <<>>
    /\ dashLoading = TRUE
    /\ dashFetch = "idle"
    /\ documents = <<>>
    /\ loading = TRUE
    /\ searchTerm = <<>>
    /\ viewMode = "grid"
    /\ sortBy = "upload_date"
    /\ aiProviders = <<>>
    /\ docsMounted = FALSE
    /\ docsFetches = 0
    /\ docsOvertaken = 0
    /\ providersFetch = "idle"
    /\ uploading = FALSE
    /\ uploads = <<>>
    /\ deletes = <<>>
    /\ downloads = <<>>
    /\ selectedDocument = Null
    /\ aiTaskDialogOpen = FALSE
    /\ aiTaskType = "summarize"
    /\ aiTaskInstructions = <<>>
    /\ aiTaskProvider = "openai"
    /\ aiTaskModel = "gpt-4o-mini"
    /\ aiTaskLoading = FALSE
    /\ aiTasks = <<>>
    /\ gestures = "any"
    /\ messages = <<>>
    /\ inputMessage = <<>>
    /\ isLoading = FALSE
    /\ chatSelectedDocument = Null
    /\ chatDocuments = <<>>
    /\ chatAiProviders = <<>>
    /\ currentProvider = "openai"
    /\ currentModel = "gpt-4o-mini"
    /\ temperature = 7
    /\ chatMounted = FALSE
    /\ chatPending = <<>>
    /\ chatDocsFetches = 0
    /\ chatProvidersFetch = "idle"
    /\ sent = <<>>
    /\ received = <<>>
    /\ toasts = <<>>
    /\ effects = <<>>

SpecApp == Init /\ [][AppNext]_vars

SpecDashboard == Init /\ [][DashboardNext]_vars

SpecDocs == Init /\ [][DocsNext]_vars

SpecDocsFiles == Init /\ [][DocsFilesNext]_vars

SpecDocsTask == Init /\ [][DocsTaskNext]_vars

SpecDocsAll == Init /\ [][DocsAllNext]_vars

SpecChat == Init /\ [][ChatNext]_vars

-----------------------------------------------------------------------------
(* Properties of App (SpecApp) *)

\* C5: once toggleDarkMode has been called at least once, the stored
\* 'pdflux-theme' is 'dark' exactly when darkMode is true and 'light' exactly
\* when it is false, and the root element carries the class 'dark' exactly
\* when darkMode is true.
C5_StoredThemeFollowsDarkMode ==
    (appMounted /\ lastChosen # "none") =>
        /\ (storedTheme = "dark") <=> darkMode
        /\ (storedTheme = "light") <=> ~darkMode
        /\ rootDark <=> darkMode

\* Two toggles in one page: dark was entered and left again
C5_Witness ==
    /\ appMounted
    /\ lastChosen = "light"
    /\ storedTheme = "light"
    /\ ~darkMode
    /\ ~rootDark

\* C6: a mount of App restores the theme the last toggle chose: dark when
\* 'dark' is stored, light when 'light' is stored whatever the system
\* preference is, and the system preference when nothing is stored; the root
\* class agrees with the restored darkMode.
C6_MountRestoresTheme ==
    [][AppMount =>
         /\ storedTheme = "dark" => darkMode'
         /\ storedTheme = "light" => ~darkMode'
         /\ storedTheme = NoTheme => (darkMode' <=> prefersDark)
         /\ lastChosen # "none" => (darkMode' <=> (lastChosen = "dark"))
         /\ rootDark' <=> darkMode']_vars

\* The page was just mounted with 'light' stored by a toggle on a system that
\* prefers dark, and it is light
C6_Witness ==
    /\ appMounted
    /\ sent = MountRequests(view)
    /\ route = "/"
    /\ lastChosen = "light"
    /\ storedTheme = "light"
    /\ prefersDark
    /\ ~darkMode
    /\ ~rootDark

\* C7: every route mounts the view described for it: '/' the dashboard,
\* '/documents' the document manager, whose mount fetches the document list,
\* and '/ai-chat' the chat view.
C7_RoutesMountDescribedViews ==
    appMounted =>
        /\ route = "/" => view = DashboardView
        /\ route = "/documents" =>
              /\ view = DocumentManagerFull
              /\ \E i \in 1..Len(MountRequests(view)) : MountRequests(view)[i] = GetDocuments
        /\ route = "/ai-chat" => view = AIChatFull

-----------------------------------------------------------------------------
(* Properties of Dashboard (SpecDashboard) *)

\* The sum of the sizes of the documents at the indices S, whatever the order
RECURSIVE SizeSum(_, _)
SizeSum(data, S) ==
    IF S = {} THEN 0
    ELSE LET i == CHOOSE k \in S : TRUE
         IN  data[i].size + SizeSum(data, S \ {i})

\* C8: when the dashboard's fetch has succeeded with a list of n documents,
\* totalDocuments is n, storageUsed is the sum of the documents' sizes, and
\* recentDocuments is the first min(5, n) documents of the response, in the
\* response's order.
C8_DashboardStatsFromResponse ==
    (dashFetch = "settled" /\ received # <<>> /\ received[1].ok) =>
        LET data == received[1].data
            n    == Len(data)
            m    == IF n < 5 THEN n ELSE 5
        IN  /\ stats.totalDocuments = n
            /\ stats.storageUsed = SizeSum(data, 1..n)
            /\ Len(recentDocuments) = m
            /\ \A i \in 1..m : recentDocuments[i] = data[i]

\* A response of more than five documents of different sizes has been applied
C8_Witness ==
    /\ dashFetch = "settled"
    /\ received # <<>>
    /\ received[1].ok
    /\ Len(received[1].data) > 5
    /\ Len(recentDocuments) = 5
    /\ received[1].data[1].size # received[1].data[2].size
    /\ stats.totalDocuments = Len(received[1].data)

-----------------------------------------------------------------------------
(* Properties of DocumentManager (SpecDocs) *)

\* Two characters that are the same letter, whatever their case
SameLetter(c, d) ==
    \/ c = d
    \/ {c, d} \in { {"a", "A"}, {"b", "B"} }

\* `term` occurs in `text` at some offset, letter for letter, ignoring case
ContainsIgnoringCase(text, term) ==
    \E off \in 0..(Len(text) - Len(term)) :
        \A k \in 1..Len(term) : SameLetter(text[off + k], term[k])

\* The document's filename, or its description when it has one, contains `term`
PassesSearch(doc, term) ==
    \/ ContainsIgnoringCase(doc.filename, term)
    \/ /\ "description" \in DOMAIN doc
       /\ ContainsIgnoringCase(doc.description, term)

\* C9: for every search term, the displayed list holds exactly the documents
\* whose filename, or whose description when it has one, contains the term
\* ignoring case; with the empty term every document is displayed; no
\* document is displayed twice and none is invented.
C9_FilterKeepsExactlyMatches ==
    LET shown == filteredDocuments
    IN  /\ \A i \in 1..Len(documents) :
              PassesSearch(documents[i], searchTerm)
                  <=> \E j \in 1..Len(shown) : shown[j] = documents[i]
        /\ \A j \in 1..Len(shown) : \E i \in 1..Len(documents) : shown[j] = documents[i]
        /\ \A j, k \in 1..Len(shown) : shown[j] = shown[k] => j = k
        /\ searchTerm = <<>> => Len(shown) = Len(documents)

\* Of three documents the term drops one and keeps two, one by its filename
\* and one by its description only, where the term occurs in another case
C9_Witness ==
    /\ Len(documents) = 3
    /\ searchTerm # <<>>
    /\ Len(filteredDocuments) = 2
    /\ \E j \in 1..2 :
          /\ "description" \in DOMAIN filteredDocuments[j]
          /\ ~ContainsIgnoringCase(filteredDocuments[j].filename, searchTerm)
          /\ ~Includes(filteredDocuments[j].description, searchTerm)
    /\ \E j \in 1..2 :
          /\ ContainsIgnoringCase(filteredDocuments[j].filename, searchTerm)
          /\ ~Includes(filteredDocuments[j].filename, searchTerm)

\* An ISO date text is not older than another: digit by digit from the left
RECURSIVE NotOlder(_, _)
NotOlder(d, e) ==
    IF d = <<>> \/ e = <<>> THEN TRUE
    ELSE \/ DigitValue(Head(d)) > DigitValue(Head(e))
         \/ /\ Head(d) = Head(e)
            /\ NotOlder(Tail(d), Tail(e))

\* C10: under every sort key the displayed list is a permutation of the
\* documents that pass the search filter, ordered by filename ascending for
\* 'filename', by size descending for 'size', and by upload_date descending
\* for 'upload_date' and for any other value.
C10_SortIsOrderedPermutation ==
    \A key \in SortKeys \cup {"other"} :
        LET shown   == FilteredDocuments(documents, searchTerm, key)
            passing == { i \in 1..Len(documents) : PassesSearch(documents[i], searchTerm) }
        IN  /\ Len(shown) = Cardinality(passing)
            /\ \A i \in passing : \E j \in 1..Len(shown) : shown[j] = documents[i]
            /\ \A i, j \in 1..Len(shown) :
                  i < j =>
                     CASE key = "filename" ->
                              LocaleCompare(shown[i].filename, shown[j].filename) <= 0
                       [] key = "size" -> shown[i].size >= shown[j].size
                       [] OTHER -> NotOlder(shown[i].upload_date, shown[j].upload_date)

\* Three documents are displayed by size, in another order than they were
\* fetched in
C10_Witness ==
    /\ sortBy = "size"
    /\ Len(documents) = 3
    /\ Len(filteredDocuments) = 3
    /\ filteredDocuments # documents
    /\ filteredDocuments[1].size > filteredDocuments[3].size

-----------------------------------------------------------------------------
(* Properties of AIChat (SpecChat) *)

Blanks(n) == [k \in 1..n |-> " "]

\* `c` is `raw` without the blanks at its two ends
IsTrimmed(raw, c) ==
    /\ c # <<>> => (c[1] # " " /\ c[Len(c)] # " ")
    /\ \E i, j \in 0..Len(raw) : raw = Blanks(i) \o c \o Blanks(j)

\* sendMessage's guard lets the call through: the input holds more than
\* blanks and no request is awaited
PassesGuard ==
    /\ \E k \in 1..Len(inputMessage) : inputMessage[k] # " "
    /\ ~isLoading

\* C1: a call of sendMessage that passes its guard issues exactly one POST
\* /api/ai/chat whose `messages` are the whole transcript at the moment of
\* the call, the welcome message included, followed by the new user message
\* with its content trimmed, together with the current provider, model and
\* temperature.
C1_SendPostsWholeTranscript ==
    [][(sendMessage /\ PassesGuard) =>
         /\ Len(sent') = 1
         /\ sent'[1].method = "POST"
         /\ sent'[1].url = "/api/ai/chat"
         /\ LET request == sent'[1].body
                n       == Len(messages)
            IN  /\ Len(request.messages) = n + 1
                /\ \A k \in 1..n :
                      /\ request.messages[k].role = messages[k].role
                      /\ request.messages[k].content = messages[k].content
                /\ request.messages[1].content = WelcomeMessage.content
                /\ request.messages[n + 1].role = "user"
                /\ IsTrimmed(inputMessage, request.messages[n + 1].content)
                /\ request.model_provider = currentProvider
                /\ request.model_name = currentModel
                /\ request.temperature = temperature]_vars

\* A padded input was sent on a transcript of two messages, under another
\* provider, model and temperature than the initial ones
C1_Witness ==
    /\ Len(sent) = 1
    /\ sent[1].url = "/api/ai/chat"
    /\ Len(sent[1].body.messages) = 3
    /\ sent[1].body.messages[3] = [role |-> "user", content |-> <<"a", " ", "b">>]
    /\ sent[1].body.model_provider = "anthropic"
    /\ sent[1].body.model_name = "claude-3-5-sonnet"
    /\ sent[1].body.temperature = 15
    /\ isLoading

\* C2: when a chat request succeeds, exactly one assistant message whose
\* content is the response's message content is appended at the end of the
\* transcript as it is when the response arrives, and nothing before it
\* changes.
C2_SuccessAppendsAssistantMessage ==
    [][ChatRequestSuccess =>
         /\ Len(received') = 1
         /\ received'[1].ok
         /\ messages' = Append(messages,
                               [role    |-> "assistant",
                                content |-> received'[1].data.message.content,
                                isError |-> FALSE])]_vars

\* A response has arrived on a transcript that is no longer the one its
\* request was sent from, and its message is the last one
C2_Witness ==
    /\ Len(received) = 1
    /\ received[1].url = "/api/ai/chat"
    /\ received[1].ok
    /\ Len(received[1].closure.newMessages) = 2
    /\ Len(messages) = 2
    /\ messages[1] = WelcomeMessage
    /\ messages[2].role = "assistant"
    /\ messages[2].content = received[1].data.message.content

\* C3: when a chat request has failed, the user's message of that request is
\* in the transcript, one assistant message flagged isError whose content
\* includes the backend's detail or the error's message comes right after it
\* at the end, the toast 'Chat request failed' is shown, and sending is not
\* blocked.
C3_FailureKeepsUserMessage ==
    (Len(received) = 1 /\ received[1].url = "/api/ai/chat" /\ ~received[1].ok) =>
        LET n     == Len(messages)
            asked == received[1].closure.newMessages
            error == received[1].error
            texts == {error.message} \cup
                     (IF "detail" \in DOMAIN error THEN {error.detail} ELSE {})
        IN  /\ n >= 2
            /\ messages[n - 1] = asked[Len(asked)]
            /\ messages[n].role = "assistant"
            /\ messages[n].isError
            /\ \E text \in texts, off \in 0..Len(messages[n].content) :
                  /\ off + Len(text) <= Len(messages[n].content)
                  /\ SubSeq(messages[n].content, off + 1, off + Len(text)) = text
            /\ toasts = <<ToastError("Chat request failed")>>
            /\ ~isLoading

\* C4: the request of sendMessage carries document_id exactly when a
\* document is selected at the moment of the call, and then it is that
\* document's id.
C4_DocumentIdIffSelected ==
    [][(sendMessage /\ sent' # <<>>) =>
         LET request == sent'[1].body
         IN  /\ ("document_id" \in DOMAIN request) <=> (chatSelectedDocument # Null)
             /\ chatSelectedDocument # Null =>
                   request.document_id = chatSelectedDocument.id]_vars

\* A request was sent with the second document selected
C4_Witness ==
    /\ Len(sent) = 1
    /\ sent[1].url = "/api/ai/chat"
    /\ chatSelectedDocument # Null
    /\ chatSelectedDocument.id = 2
    /\ "document_id" \in DOMAIN sent[1].body
    /\ sent[1].body.document_id = 2

\* C18: a call of sendMessage while the input is empty or only whitespace, or
\* while a request is in flight, sends no request and leaves the transcript,
\* the input box and isLoading as they are.
C18_BlockedSendDoesNothing ==
    [][(sendMessage /\ ~PassesGuard) =>
         /\ sent' = <<>>
         /\ UNCHANGED <<messages, inputMessage, isLoading>>]_vars

\* Enter was pressed on a non-blank input while a request was in flight:
\* nothing was sent and the input is still in the box
C18_Witness ==
    /\ chatMounted
    /\ isLoading
    /\ \E i \in 1..Len(inputMessage) : inputMessage[i] # " "
    /\ sent = <<>> /\ received = <<>> /\ toasts = <<>>
    /\ Len(messages) = 2
    /\ Len(chatPending) = 1

\* C19: clearChat asks nothing and changes nothing when the transcript holds
\* only the welcome message, and changes nothing when the user declines the
\* confirmation; when the user confirms, the transcript becomes exactly the
\* welcome message and no document is selected.  Provider, model, temperature
\* and the document list are the same after any call.
C19_ClearChatResetsTranscript ==
    [][clearChat =>
         LET asked    == Len(effects') = 1 /\ effects'[1].kind = "confirm"
             declined == asked /\ ~effects'[1].answer
         IN  /\ sent' = <<>>
             /\ UNCHANGED <<currentProvider, currentModel, temperature, chatDocuments>>
             /\ asked <=> Len(messages) > 1
             /\ IF Len(messages) <= 1 \/ declined
                  THEN UNCHANGED <<messages, chatSelectedDocument, inputMessage, isLoading>>
                  ELSE /\ messages' = <<WelcomeMessage>>
                       /\ chatSelectedDocument' = Null]_vars

\* The chat was cleared on confirmation with a document loaded and a provider
\* other than the initial one: only the welcome message is left, no document
\* is selected, and the provider is still the chosen one
C19_Witness ==
    /\ Len(effects) = 1
    /\ effects[1].kind = "confirm"
    /\ effects[1].answer
    /\ toasts = <<ToastSuccess("Chat cleared")>>
    /\ messages = <<WelcomeMessage>>
    /\ chatSelectedDocument = Null
    /\ chatDocuments # <<>>
    /\ currentProvider # "openai"

\* C17: when the request of a chat message has settled, that message is in
\* the transcript with an assistant message (the reply or the error message)
\* right after it, and isLoading is false.
C17_SettledMessageIsAnswered ==
    (Len(received) = 1 /\ received[1].url = "/api/ai/chat") =>
        LET n     == Len(messages)
            asked == received[1].closure.newMessages
        IN  /\ ~isLoading
            /\ n >= 2
            /\ messages[n].role = "assistant"
            /\ \E i \in 1..(n - 1) :
                  /\ messages[i] = asked[Len(asked)]
                  /\ messages[i + 1].role = "assistant"

C12_UploadThenRefetch ==
    [][LET settled(url) == Len(received') = 1 /\ received'[1].url = url
       IN  /\ \A files \in AcceptedFiles :
                (onDropFiles(files) /\ files # <<>>
                                    /\ files[1].type = "application/pdf") =>
                   /\ sent' = <<UploadRequest(files[1])>>
                   /\ uploading'
           /\ (settled("/api/documents/upload") /\ received'[1].ok) =>
                /\ sent' = <<GetDocuments>>
                /\ ~uploading'
           /\ (settled("/api/documents/upload") /\ ~received'[1].ok) =>
                /\ sent' = <<>>
                /\ Len(toasts') = 1 /\ toasts'[1].kind = "error"
                /\ UNCHANGED documents
                /\ ~uploading'
           /\ (settled("/api/documents") /\ received'[1].ok) =>
                /\ documents' = received'[1].data
                /\ UNCHANGED <<searchTerm, sortBy>>]_vars

\* An upload has succeeded: the list is being fetched again and the drop
\* zone is enabled
C12_Witness ==
    /\ Len(received) = 1
    /\ received[1].url = "/api/documents/upload"
    /\ received[1].ok
    /\ sent = <<GetDocuments>>
    /\ ~uploading
    /\ Len(toasts) = 1 /\ toasts[1].kind = "success"

\* C13: deleteDocument sends DELETE /api/documents/:id exactly when the user
\* confirms; when the user declines no request is sent and no state of the
\* view changes.  A successful delete sends GET /api/documents; a failed one
\* shows an error toast, sends nothing and leaves the list, and so what is
\* displayed of it, as it was.
C13_DeleteOnlyOnConfirm ==
    [][LET settled(url) == Len(received') = 1 /\ received'[1].url = url
           asked        == Len(effects') = 1 /\ effects'[1].kind = "confirm"
           deleting     == Len(sent') = 1 /\ sent'[1].method = "DELETE"
       IN  /\ deleting <=> (asked /\ effects'[1].answer)
           /\ deleting =>
                \E i \in 1..Len(filteredDocuments) :
                   sent' = <<DeleteRequest(filteredDocuments[i].id)>>
           /\ (asked /\ ~effects'[1].answer) =>
                /\ sent' = <<>> /\ toasts' = <<>>
                /\ UNCHANGED <<docListVars, docFileVars, docTaskVars>>
           /\ (settled("/api/documents/:docId") /\ received'[1].ok) =>
                sent' = <<GetDocuments>>
           /\ (settled("/api/documents/:docId") /\ ~received'[1].ok) =>
                /\ sent' = <<>>
                /\ Len(toasts') = 1 /\ toasts'[1].kind = "error"
                /\ UNCHANGED <<documents, searchTerm, sortBy>>]_vars

\* A confirmed delete has failed and its document is still displayed
C13_Witness ==
    /\ Len(received) = 1
    /\ received[1].url = "/api/documents/:docId"
    /\ ~received[1].ok
    /\ toasts = <<ToastError("Failed to delete document")>>
    /\ \E i \in 1..Len(filteredDocuments) :
          filteredDocuments[i].id = received[1].docId

\* C14: performAiTask sends nothing when no document is selected; otherwise
\* it sends exactly one POST /api/ai/tasks whose body has the id of the
\* document the dialog was opened for, the selected task type, which is one
\* of the six offered, the selected provider and model, and the additional
\* instructions exactly when they are not empty.
C14_AiTaskRequestBody ==
    [][performAiTask =>
         /\ \A taskType \in TaskTypes, instructions \in TaskInstructionTexts :
               PerformAiTaskRequests(Null, taskType, instructions,
                                     aiTaskProvider, aiTaskModel) = <<>>
         /\ IF selectedDocument = Null
              THEN sent' = <<>>
              ELSE
                /\ Len(sent') = 1
                /\ sent'[1].method = "POST"
                /\ sent'[1].url = "/api/ai/tasks"
                /\ LET body == sent'[1].body
                   IN  /\ body.document_id = selectedDocument.id
                       /\ body.task_type = aiTaskType
                       /\ body.task_type \in TaskTypes
                       /\ body.model_provider = aiTaskProvider
                       /\ body.model_name = aiTaskModel
                       /\ ("additional_instructions" \in DOMAIN body)
                             <=> (aiTaskInstructions # <<>>)
                       /\ aiTaskInstructions # <<>> =>
                             body.additional_instructions = aiTaskInstructions]_vars

\* A translation of the second document was requested with instructions and
\* a provider other than the initial one
C14_Witness ==
    /\ Len(sent) = 1
    /\ sent[1].url = "/api/ai/tasks"
    /\ sent[1].body.document_id = 2
    /\ sent[1].body.task_type = "translate"
    /\ sent[1].body.model_provider # "openai"
    /\ "additional_instructions" \in DOMAIN sent[1].body
    /\ aiTaskLoading
    /\ selectedDocument # Null /\ selectedDocument.id = 2

\* C15: when the AI task request succeeds the result is written to a newly
\* opened tab under the filename of the document the request was sent for,
\* the dialog is closed and the instructions are cleared; when it fails no
\* tab is opened, the dialog stays as it is with its instructions, task type,
\* provider and model, and an error toast is shown.
C15_AiTaskOutcome ==
    [][LET settled == Len(received') = 1 /\ received'[1].url = "/api/ai/tasks"
       IN  /\ (settled /\ received'[1].ok) =>
                /\ effects' = <<Tab(aiTasks[1].taskType, aiTasks[1].document.filename,
                                    received'[1].data.result)>>
                /\ ~aiTaskDialogOpen'
                /\ aiTaskInstructions' = <<>>
           /\ (settled /\ ~received'[1].ok) =>
                /\ effects' = <<>>
                /\ UNCHANGED <<aiTaskDialogOpen, aiTaskInstructions, aiTaskType,
                               aiTaskProvider, aiTaskModel>>
                /\ Len(toasts') = 1 /\ toasts'[1].kind = "error"]_vars

\* C16: every HTTP request that fails (the document list fetch, the AI
\* provider list fetch, an upload, a download, a delete, an AI task, a chat
\* request, the dashboard fetch) is surfaced by an error toast: the step that
\* handles the failure shows one.
C16_FailedRequestShowsErrorToast ==
    (Len(received) = 1 /\ ~received[1].ok) =>
        \E i \in 1..Len(toasts) : toasts[i].kind = "error"

\* C20: the document list changes only in a step that receives a successful
\* response of GET /api/documents, and such a step makes it exactly that
\* response; a failed fetch, and the steps of upload, download, delete and AI
\* task leave it as it is, and so does a change of the search term, the sort
\* key or the view mode, which sends no request either.
C20_DocumentsOnlyFromFetch ==
    [][LET fetched == /\ Len(received') = 1
                      /\ received'[1].url = "/api/documents"
                      /\ received'[1].ok
       IN  /\ documents' # documents => fetched
           /\ fetched => documents' = received'[1].data
           /\ (Len(received') = 1 /\ ~fetched) => UNCHANGED documents
           /\ (searchTerm' # searchTerm \/ sortBy' # sortBy \/ viewMode' # viewMode) =>
                 /\ sent' = <<>>
                 /\ UNCHANGED documents]_vars

\* A delete has succeeded and the list still holds the deleted document,
\* until the fetch the delete started comes back
C20_Witness ==
    /\ Len(received) = 1
    /\ received[1].url = "/api/documents/:docId"
    /\ received[1].ok
    /\ sent = <<GetDocuments>>
    /\ \E i \in 1..Len(documents) : documents[i].id = received[1].docId

-----------------------------------------------------------------------------
(* Properties of Dashboard, continued (SpecDashboard) *)

\* C21: when the dashboard's fetch has failed, the four statistics are zero,
\* the list of recent documents is empty and an error toast is shown; once
\* the fetch has settled, successfully or not, the dashboard's loading flag
\* is false.
C21_DashboardFetchFailure ==
    /\ (dashFetch = "settled" /\ received # <<>> /\ ~received[1].ok) =>
          /\ stats.totalDocuments = 0
          /\ stats.totalChats = 0
          /\ stats.aiTasks = 0
          /\ stats.storageUsed = 0
          /\ recentDocuments = <<>>
          /\ \E i \in 1..Len(toasts) : toasts[i].kind = "error"
    /\ dashFetch = "settled" => ~dashLoading

\* The fetch of a dashboard has failed
C21_Witness ==
    /\ dashFetch = "settled"
    /\ received # <<>>
    /\ ~received[1].ok
    /\ toasts = <<ToastError("Failed to load dashboard data")>>
    /\ ~dashLoading

-----------------------------------------------------------------------------
(* Properties of AIChat, continued (SpecChat) *)

\* C22: at most one chat request is in flight at any time: a step sends a
\* POST /api/ai/chat only when no chat request is in flight, and then exactly
\* one is.
C22_OneChatRequestInFlight ==
    [][(\E i \in 1..Len(sent') : sent'[i].url = "/api/ai/chat") =>
         /\ Len(sent') = 1
         /\ chatPending = <<>>
         /\ Len(chatPending') = 1]_vars

\* While a request is in flight the chat has been cleared and a new text
\* typed: the request is still the only one and sending is blocked
C22_Witness ==
    /\ Len(chatPending) = 1
    /\ isLoading
    /\ Len(messages) = 1
    /\ \E i \in 1..Len(inputMessage) : inputMessage[i] # " "
    /\ sent = <<>>

\* C23: each assistant message of the transcript other than the welcome
\* message at its head comes right after a user message.
C23_AssistantFollowsUser ==
    \A i \in 2..Len(messages) :
       messages[i].role = "assistant" => messages[i - 1].role = "user"

\* C24: once the chat view is initialised the transcript is not empty and
\* its first message is the assistant's welcome message.
C24_TranscriptStartsWithWelcome ==
    chatMounted =>
       /\ Len(messages) >= 1
       /\ messages[1].role = "assistant"
       /\ ~messages[1].isError
       /\ messages[1].content = <<"Welcome to PDFLux AI Chat!">>

\* A reply has arrived after the chat was cleared with its request in flight:
\* the welcome message is still first
C24_Witness ==
    /\ chatMounted
    /\ Len(received) = 1
    /\ received[1].url = "/api/ai/chat"
    /\ Len(received[1].closure.newMessages) = 2
    /\ Len(messages) = 2
    /\ messages[1].content = <<"Welcome to PDFLux AI Chat!">>
    /\ messages[2].role = "assistant"
    /\ ~received[1].ok

-----------------------------------------------------------------------------
(* Properties of DocumentManager, continued *)

\* C25: the response of an earlier fetch of the document list (on mount, by
\* Refresh, after an upload, after a delete) never overwrites the response
\* of a later one, so that once every fetch has settled the list is the one
\* the latest fetch returned: no successful response written to the list
\* comes from a request that was sent before the request whose response the
\* list already showed.
C25_EarlierFetchNeverOverwrites ==
    (/\ Len(received) = 1
     /\ received[1].url = "/api/documents"
     /\ received[1].ok
     /\ "overtaken" \in DOMAIN received[1]) =>
        ~received[1].overtaken

\* C26: uploading is true in every state in which an upload request is in
\* flight and false in every state in which none is, also when a second file
\* is dropped before the first upload has settled.
C26_UploadingIffUploadInFlight ==
    uploading <=> (uploads # <<>>)

\* C27: at most one AI task request is in flight at any time, aiTaskLoading
\* is true exactly while one is, and a step sends a POST /api/ai/tasks only
\* when aiTaskLoading is false.
C27_OneAiTaskInFlight ==
    /\ [](Len(aiTasks) <= 1)
    /\ [](aiTaskLoading <=> (aiTasks # <<>>))
    /\ [][(\E i \in 1..Len(sent') : sent'[i].url = "/api/ai/tasks") =>
            ~aiTaskLoading /\ aiTasks = <<>>]_vars

\* With a request in flight the dialog was closed and opened again for
\* another document: the task is still loading
C27_Witness ==
    /\ Len(aiTasks) = 1
    /\ aiTaskLoading
    /\ aiTaskDialogOpen
    /\ selectedDocument # Null
    /\ selectedDocument.id # aiTasks[1].document.id

\* C28: the loading flag of the document manager is true at first and stays
\* true until a fetch of the document list settles; the step in which one
\* settles, successfully or not, makes it false; once false it is never true
\* again, whatever fetch is started later.
C28_LoadingOnlyUntilFirstFetch ==
    /\ loading = TRUE
    /\ [][LET settled == Len(received') = 1 /\ received'[1].url = "/api/documents"
          IN  /\ settled => ~loading'
              /\ (loading /\ ~loading') => settled
              /\ ~loading => ~loading']_vars

\* A second fetch is in flight after the first one has settled, and the
\* skeleton is not shown
C28_Witness ==
    /\ docsMounted
    /\ ~loading
    /\ docsFetches = 2
    /\ Len(documents) > 0
    /\ sent = <<GetDocuments>>

-----------------------------------------------------------------------------
(* Properties of the provider, model and document selections *)

\* C29: in every chat request and every AI task request, the model name sent
\* is one of the available models the backend lists for the provider sent in
\* the same request.
C29_ModelBelongsToProvider ==
    \A i \in 1..Len(sent) :
       sent[i].url \in {"/api/ai/chat", "/api/ai/tasks"} =>
          \E p \in 1..Len(ProviderList) :
             /\ ProviderList[p].name = sent[i].body.model_provider
             /\ \E m \in 1..Len(ProviderList[p].available_models) :
                   ProviderList[p].available_models[m] = sent[i].body.model_name

\* C30: a chat request that carries a document_id carries the id of a
\* document of the list the view holds, and the selected document, if any,
\* is a document of that list, also after the list has been fetched again.
C30_SelectedDocumentIsListed ==
    LET listed(id) == \E d \in 1..Len(chatDocuments) : chatDocuments[d].id = id
    IN  /\ \A i \in 1..Len(sent) :
              (sent[i].url = "/api/ai/chat" /\ "document_id" \in DOMAIN sent[i].body) =>
                 listed(sent[i].body.document_id)
        /\ chatSelectedDocument # Null => listed(chatSelectedDocument.id)

=============================================================================
